---- MODULE Spec2Model ----
(***************************************************************************)
(* Model of scripts/merge_inputs.py: the merge pipeline of main and its    *)
(* helpers _ensure_regular_time_index, _aggregate_weekly, load_table and   *)
(* rename_kpi_columns.                                                     *)
(*                                                                         *)
(* A DataFrame is a record [cols, rows]: cols is the sequence of column    *)
(* names (a name may occur twice, as after DataFrame.rename), rows is the  *)
(* sequence of rows, each a sequence of cells aligned with cols.           *)
(*                                                                         *)
(* A number is a fraction <<n, d>> in lowest terms; <<0, 0>> is NaN and    *)
(* <<1, 0>> is inf.  A datetime is a number of hours since                 *)
(* 2023-01-30 00:00, a Monday.  Date text "YYYY-MM-DD" is <<y, m, d>> and  *)
(* date text with a time of day, "YYYY-MM-DD HH:00", is <<y, m, d, h>>.    *)
(***************************************************************************)
EXTENDS Integers, Sequences, FiniteSets, TLC

VARIABLES
    pc,        \* position of the running program
    args,      \* the parsed command line (or the arguments of the call)
    media_df,  \* main: the media table
    extra_df,  \* main: the extra table
    merged,    \* main: the merged table
    arg,       \* a helper's table argument as the caller passed it
    df,        \* a helper's table argument, as the helper leaves it
    result,    \* a helper's return value
    freq,      \* _ensure_regular_time_index: freq of each group reindexed
    raised     \* the exception raised: [type, cols], type "none" when none

vars == <<pc, args, media_df, extra_df, merged, arg, df, result, freq, raised>>

(***************************************************************************)
(* Bounds of the model.                                                    *)
(***************************************************************************)
MaxDay == 5          \* dates of the regularizer's inputs: day 0 .. MaxDay
MaxRows == 4         \* rows of a regularizer input without a geo column
MaxGeoRows == 3      \* rows of a regularizer input with a geo column
MaxGeoDay == 3       \* dates of a regularizer input with a geo column
MaxWeekDay == 7      \* dates of the aggregator's inputs: day 0 .. MaxWeekDay
MaxWeekRows == 2     \* rows of an aggregator input

MaxRenameRows == 1   \* rows of a rename_kpi_columns input
MaxMediaRows == 3    \* main: rows of a media file without a geo column
MaxGeoFileRows == 2  \* main: rows of a media file with a geo column

(***************************************************************************)
(* Exceptions: the type and, for the error of rename_kpi_columns, the      *)
(* column names its message lists.                                         *)
(***************************************************************************)
NoError == [type |-> "none", cols |-> <<>>]
ValueError(cols) == [type |-> "ValueError", cols |-> cols]
ParseError == [type |-> "ParseError", cols |-> <<>>]

(***************************************************************************)
(* Numbers.                                                                *)
(***************************************************************************)
NaN == <<0, 0>>
Num(n) == <<n, 1>>
IsNaN(v) == v = NaN

RECURSIVE Gcd(_, _)
Gcd(a, b) == IF b = 0 THEN a ELSE Gcd(b, a % b)

Norm(v) ==
    IF v[2] = 0 THEN <<IF v[1] > 0 THEN 1 ELSE 0, 0>>
    ELSE IF v[1] = 0 THEN <<0, 1>>
    ELSE LET g == Gcd(v[1], v[2]) IN <<v[1] \div g, v[2] \div g>>

Add(a, b) == Norm(<<a[1] * b[2] + b[1] * a[2], a[2] * b[2]>>)
Div(a, b) == Norm(<<a[1] * b[2], a[2] * b[1]>>)

(***************************************************************************)
(* Sequences.                                                              *)
(***************************************************************************)
Range(s) == {s[i] : i \in 1..Len(s)}
SeqsUpTo(S, n) == UNION {[1..k -> S] : k \in 0..n}

RECURSIVE Flatten(_)
Flatten(ss) == IF ss = <<>> THEN <<>> ELSE Head(ss) \o Flatten(Tail(ss))

RECURSIVE Count(_, _)
Count(s, v) ==
    IF s = <<>> THEN 0
    ELSE (IF Head(s) = v THEN 1 ELSE 0) + Count(Tail(s), v)

\* Series.unique(): the values in order of first appearance (NaN is one value)
RECURSIVE Unique(_)
Unique(s) ==
    IF s = <<>> THEN <<>>
    ELSE LET u == Unique(SubSeq(s, 1, Len(s) - 1))
             v == s[Len(s)]
         IN  IF v \in Range(u) THEN u ELSE Append(u, v)

\* the elements of a finite set of integers in increasing order
RECURSIVE Sorted(_)
Sorted(S) ==
    IF S = {} THEN <<>>
    ELSE LET m == CHOOSE x \in S : \A y \in S : x <= y
         IN  <<m>> \o Sorted(S \ {m})

(***************************************************************************)
(* DataFrame access.                                                       *)
(***************************************************************************)
EmptyFrame == [cols |-> <<>>, rows |-> <<>>]
HasCol(t, c) == c \in Range(t.cols)
ColIdx(t, c) ==
    CHOOSE i \in 1..Len(t.cols) :
        t.cols[i] = c /\ \A j \in 1..(i - 1) : t.cols[j] # c
Column(t, c) == [r \in 1..Len(t.rows) |-> t.rows[r][ColIdx(t, c)]]
\* the cells of a row under the columns ks, in the order of ks
Key(t, row, ks) == [k \in 1..Len(ks) |-> row[ColIdx(t, ks[k])]]
\* df[c] = values: the cells of column c replaced by values, row by row
SetColumn(t, c, values) ==
    [t EXCEPT !.rows =
        [r \in 1..Len(t.rows) |->
            [i \in 1..Len(t.cols) |->
                IF t.cols[i] = c THEN values[r] ELSE t.rows[r][i]]]]
\* the rows of t with their cells put in the column order cs
Reorder(t, cs) ==
    [cols |-> cs,
     rows |-> [r \in 1..Len(t.rows) |->
                 [i \in 1..Len(cs) |-> t.rows[r][ColIdx(t, cs[i])]]]]

(***************************************************************************)
(* Dates: pd.to_datetime and Series.dt.strftime("%Y-%m-%d").               *)
(***************************************************************************)
DaysInMonth(m) == CASE m \in {4, 6, 9, 11} -> 30 [] m = 2 -> 28 [] OTHER -> 31

RECURSIVE DayOfYear(_, _)
DayOfYear(m, d) == IF m = 1 THEN d ELSE DaysInMonth(m - 1) + DayOfYear(m - 1, d)

RECURSIVE MonthDay(_, _)
MonthDay(m, d) ==
    IF d <= DaysInMonth(m) THEN <<2023, m, d>>
    ELSE MonthDay(m + 1, d - DaysInMonth(m))

\* text that names no date of the calendar cannot be parsed
Parseable(s) ==
    /\ s[2] \in 1..12
    /\ s[3] \in 1..DaysInMonth(s[2])
    /\ Len(s) = 4 => s[4] \in 0..23

ToDatetime(s) ==
    24 * (DayOfYear(s[2], s[3]) - 30) + (IF Len(s) = 4 THEN s[4] ELSE 0)

Strftime(t) == MonthDay(1, 30 + (t \div 24))

Days(a, b) == (a - b) \div 24          \* Timedelta.days
Weekday(t) == (t \div 24) % 7          \* Monday is 0

(***************************************************************************)
(* _ensure_regular_time_index                                              *)
(***************************************************************************)
None == "None"

\* Series.diff().dropna().dt.days of the sorted times
Diffs(times) == [i \in 1..(Len(times) - 1) |-> Days(times[i + 1], times[i])]

\* Series.mode(): the most frequent values, in increasing order
Mode(s) ==
    Sorted({v \in Range(s) : \A w \in Range(s) : Count(s, w) <= Count(s, v)})

\* the first observed difference, whatever the mode
InferFreqFirst(diffs) == diffs[1]

\* lines 28-30: the smallest mode, else the first difference
InferFreq(diffs) ==
    IF Mode(diffs) # <<>> THEN Mode(diffs)[1] ELSE diffs[1]

\* pd.date_range(start, end, freq=f"{f}D")
RECURSIVE DateRange(_, _, _)
DateRange(start, end, f) ==
    IF start > end THEN <<>>
    ELSE <<start>> \o DateRange(start + 24 * f, end, f)

\* the rows of one group: all of df, or the rows whose geo equals geo
\* (NaN == NaN is False, so no row belongs to the group of a missing geo)
GeoDf(t, geo_column, geo) ==
    IF geo = None THEN t
    ELSE [t EXCEPT !.rows = SelectSeq(t.rows, LAMBDA row :
            row[ColIdx(t, geo_column)] = geo /\ ~IsNaN(geo))]

SortedTimes(g, date_column) ==
    SortSeq(Column(g, date_column), LAMBDA a, b : a < b)

GroupFreq(g, date_column) == InferFreq(Diffs(SortedTimes(g, date_column)))

\* set_index(keys).reindex(index).reset_index(): keys first, one row per
\* label of the index, the row of g that bears the label or an all-NaN row
Reindex(g, date_column, keys, full_range) ==
    LET rest == SelectSeq(g.cols, LAMBDA c : c \notin Range(keys))
        cs   == keys \o rest
        src  == Reorder(g, cs)
        di   == ColIdx(src, date_column)
        RowAt(t) ==
            IF \E r \in 1..Len(src.rows) : src.rows[r][di] = t
            THEN src.rows[CHOOSE r \in 1..Len(src.rows) : src.rows[r][di] = t]
            ELSE [i \in 1..Len(cs) |->
                    IF cs[i] = date_column THEN t
                    ELSE IF cs[i] \in Range(keys) THEN g.rows[1][ColIdx(g, cs[i])]
                    ELSE NaN]
    IN  [cols |-> cs, rows |-> [k \in 1..Len(full_range) |-> RowAt(full_range[k])]]

\* reindex raises ValueError on duplicate labels; a zero frequency is no
\* valid date_range offset
GroupRaises(g, date_column) ==
    /\ Len(g.rows) >= 2
    /\ \/ GroupFreq(g, date_column) = 0
       \/ \E i, j \in 1..Len(g.rows) :
            i # j /\ Column(g, date_column)[i] = Column(g, date_column)[j]

\* the group appended as it is, as for a group of fewer than two rows
GroupFrameAsIs(g, date_column, geo_column, geo) == g

\* one iteration of the loop over geos: the frame appended to frames
GroupFrame(g, date_column, geo_column, geo) ==
    IF Len(g.rows) < 2 THEN g
    ELSE LET times == SortedTimes(g, date_column)
             full_range == DateRange(times[1], times[Len(times)],
                                     GroupFreq(g, date_column))
         IN  IF geo = None
             THEN Reindex(g, date_column, <<date_column>>, full_range)
             ELSE Reindex(g, date_column, <<geo_column, date_column>>, full_range)

\* pd.concat(frames, ignore_index=True): the columns in order of appearance
Concat(frames) ==
    LET cs == Unique(Flatten([i \in 1..Len(frames) |-> frames[i].cols]))
    IN  [cols |-> cs,
         rows |-> Flatten([i \in 1..Len(frames) |-> Reorder(frames[i], cs).rows])]

\* lines 45 and 88: the date column formatted as %Y-%m-%d
Formatted(t, date_column) ==
    SetColumn(t, date_column,
        [r \in 1..Len(t.rows) |-> Strftime(t.rows[r][ColIdx(t, date_column)])])

\* line 14: the date column parsed in place, in the caller's frame too
ParsedFrame(t, date_column) ==
    SetColumn(t, date_column,
        [r \in 1..Len(t.rows) |-> ToDatetime(t.rows[r][ColIdx(t, date_column)])])

RegularGeos(t, geo_column) ==
    IF geo_column # None /\ HasCol(t, geo_column)
    THEN Unique(Column(t, geo_column))
    ELSE <<None>>

\* the value of _ensure_regular_time_index(t, date_column, geo_column):
\* [raised, frame, freq], freq mapping each reindexed geo to its freq
_ensure_regular_time_index(t, date_column, geo_column) ==
    LET p      == ParsedFrame(t, date_column)
        geos   == RegularGeos(p, geo_column)
        G(i)   == GeoDf(p, geo_column, geos[i])
        frames == [i \in 1..Len(geos) |->
                     GroupFrame(G(i), date_column, geo_column, geos[i])]
        big    == {i \in 1..Len(geos) : Len(G(i).rows) >= 2}
    IN  IF \E i \in 1..Len(geos) : GroupRaises(G(i), date_column)
        THEN [raised |-> ValueError(<<>>), frame |-> EmptyFrame, freq |-> <<>>]
        ELSE IF frames = <<>>
        THEN [raised |-> ValueError(<<>>), frame |-> EmptyFrame, freq |-> <<>>]
        ELSE [raised |-> NoError,
              frame  |-> Formatted(Concat(frames), date_column),
              freq   |-> [g \in {geos[i] : i \in big} |->
                            GroupFreq(GeoDf(p, geo_column, g), date_column)]]

(***************************************************************************)
(* Calls of _ensure_regular_time_index on bounded tables.                  *)
(***************************************************************************)
DateTexts == {Strftime(24 * d) : d \in 0..MaxDay}
GeoDateTexts == {Strftime(24 * d) : d \in 0..MaxGeoDay}
GeoValues == {Num(1), Num(2), NaN}

\* rows get the row number as the value of column x
Numbered(cs, keyrows) ==
    [cols |-> Append(cs, "x"),
     rows |-> [r \in 1..Len(keyrows) |-> Append(keyrows[r], Num(r))]]

RegularInputs(rows, geo_rows) ==
    {Numbered(<<"time">>, ks) :
        ks \in SeqsUpTo({<<d>> : d \in DateTexts}, rows)}
    \cup
    {Numbered(<<"time", "geo">>, ks) :
        ks \in SeqsUpTo({<<d, g>> : d \in GeoDateTexts, g \in GeoValues},
                        geo_rows)}

InitRegular ==
    /\ pc = "call"
    /\ args = [date_column |-> "time"]
    /\ media_df = EmptyFrame /\ extra_df = EmptyFrame /\ merged = EmptyFrame
    /\ arg \in RegularInputs(MaxRows, MaxGeoRows)
    /\ df = arg
    /\ result = EmptyFrame
    /\ freq = <<>>
    /\ raised = NoError

GeoArg(t) == IF HasCol(t, "geo") THEN "geo" ELSE None

EnsureRegular ==
    /\ pc = "call"
    /\ \E r \in {_ensure_regular_time_index(df, args.date_column, GeoArg(df))} :
           /\ raised' = r.raised
           /\ result' = r.frame
           /\ freq' = r.freq
           /\ df' = ParsedFrame(df, args.date_column)
           /\ pc' = IF r.raised = NoError THEN "returned" ELSE "raised"
    /\ UNCHANGED <<args, media_df, extra_df, merged, arg>>

NextRegular == EnsureRegular

SpecRegular == InitRegular /\ [][NextRegular]_vars

(***************************************************************************)
(* Properties of _ensure_regular_time_index.                               *)
(***************************************************************************)
\* the groups of a frame: its geo values, or None for the whole frame
GroupsOf(t) == IF HasCol(t, "geo") THEN Range(Column(t, "geo")) ELSE {None}
RowsOf(t, g) ==
    IF g = None THEN t.rows
    ELSE SelectSeq(t.rows, LAMBDA row : row[ColIdx(t, "geo")] = g)
\* the dates of the rows of group g of a frame whose dates are text, sorted
TimesOf(t, g) ==
    LET rs == RowsOf(t, g)
    IN  SortSeq([r \in 1..Len(rs) |-> ToDatetime(rs[r][ColIdx(t, "time")])],
                LAMBDA a, b : a < b)
ConstantStep(ts) ==
    \A i \in 1..(Len(ts) - 1) :
        ts[i + 1] > ts[i] /\ ts[i + 1] - ts[i] = ts[2] - ts[1]

\* C1: whenever _ensure_regular_time_index returns, the sorted dates of every
\* geo group of the returned frame (of the whole frame without a geo column)
\* advance by one constant positive step: no gap, no duplicate date.
C1_Regularity ==
    pc = "returned" => \A g \in GroupsOf(result) : ConstantStep(TimesOf(result, g))

\* the call returned for a group of three or more dates with unequal gaps
C1_Witness ==
    /\ pc = "returned"
    /\ \E g \in DOMAIN freq :
        LET d == Diffs(SortedTimes(GeoDf(df, GeoArg(df), g), "time"))
        IN  Len(d) >= 2 /\ \E i \in 1..Len(d) : d[i] # d[1]

\* a row of the parsed input and a row of the result agree on key and values
SameRow(in, irow, out, orow) ==
    /\ Strftime(irow[ColIdx(in, "time")]) = orow[ColIdx(out, "time")]
    /\ \A c \in Range(in.cols) \ {"time"} :
        irow[ColIdx(in, c)] = orow[ColIdx(out, c)]

\* C4: every row of the input is in the result with the same (geo, date) key
\* and the same values, and every other row of the result has all its
\* non-key columns missing.
C4_RowPreservation ==
    pc = "returned" =>
        /\ \A i \in 1..Len(df.rows) :
            \E o \in 1..Len(result.rows) :
                SameRow(df, df.rows[i], result, result.rows[o])
        /\ \A o \in 1..Len(result.rows) :
            \/ \E i \in 1..Len(df.rows) :
                SameRow(df, df.rows[i], result, result.rows[o])
            \/ \A c \in Range(result.cols) \ {"time", "geo"} :
                IsNaN(result.rows[o][ColIdx(result, c)])

\* the smallest of the most frequent values of a non-empty sequence
SmallestMostFrequent(s) ==
    CHOOSE v \in Range(s) :
        /\ \A w \in Range(s) : Count(s, w) <= Count(s, v)
        /\ \A w \in Range(s) : Count(s, w) = Count(s, v) => v <= w
AllOnce(s) == \A v \in Range(s) : Count(s, v) = 1
GroupDiffs(g) == Diffs(SortedTimes(GeoDf(df, GeoArg(df), g), "time"))

\* C9 as stated: the step of a group is the smallest of its most frequent
\* day-differences, except that it is the first difference (the one between
\* the two earliest dates) when every difference occurs exactly once.
C9_FirstDiffWhenNoMode ==
    pc = "returned" =>
        \A g \in DOMAIN freq :
            freq[g] = IF AllOnce(GroupDiffs(g)) THEN GroupDiffs(g)[1]
                      ELSE SmallestMostFrequent(GroupDiffs(g))

\* C9 amended: the step of a group is always the smallest of its most
\* frequent day-differences; when every difference occurs exactly once that
\* is the smallest difference, whichever came first.
C9_SmallestMode ==
    pc = "returned" =>
        \A g \in DOMAIN freq : freq[g] = SmallestMostFrequent(GroupDiffs(g))

\* a group whose differences all occur once, the first not the smallest
C9_Witness ==
    /\ pc = "returned"
    /\ \E g \in DOMAIN freq :
        /\ Len(GroupDiffs(g)) >= 2
        /\ AllOnce(GroupDiffs(g))
        /\ freq[g] < GroupDiffs(g)[1]

(***************************************************************************)
(* _aggregate_weekly                                                       *)
(*                                                                         *)
(* Every column but the date column is numeric: load_table casts them all. *)
(* A grouping column that is numeric is therefore a key of agg_dict too;   *)
(* groupby(..., as_index=False).agg() inserts a grouping column only when  *)
(* the aggregation has produced no column of that name, so such a column   *)
(* holds the aggregate of each group and not the group's label.            *)
(***************************************************************************)
avg_cols ==
    {"nps", "ins", "ces", "gqv", "haceb_marca_proximas_comprar",
     "haceb_marca_top_of_heart", "haceb_recordacion_top_of_mind"}

\* col.startswith("descuento"), over the column names of the model
StartsWithDescuento(col) == col \in {"descuento", "descuento_cocinas"}


Agg(col) ==
    IF col \in avg_cols \/ StartsWithDescuento(col) THEN "mean" ELSE "sum"

\* lines 58-61: the date column parsed and moved back to its Monday, in place
WeekStart(t) == t - 24 * Weekday(t)
WeekFrame(t, date_column) ==
    SetColumn(t, date_column,
        [r \in 1..Len(t.rows) |-> WeekStart(ToDatetime(t.rows[r][ColIdx(t, date_column)]))])

GroupCols(t, date_column, geo_column) ==
    IF geo_column # None /\ HasCol(t, geo_column)
    THEN <<geo_column, date_column>> ELSE <<date_column>>

NumericCols(t, date_column) == SelectSeq(t.cols, LAMBDA c : c # date_column)

RECURSIVE SumSeq(_)
SumSeq(s) == IF s = <<>> THEN Num(0) ELSE Add(Head(s), SumSeq(Tail(s)))

\* GroupBy.sum and GroupBy.mean skip missing values
GroupSum(s) == SumSeq(SelectSeq(s, LAMBDA v : ~IsNaN(v)))
GroupMean(s) ==
    LET present == SelectSeq(s, LAMBDA v : ~IsNaN(v))
    IN  Div(SumSeq(present), Num(Len(present)))

\* the order of group keys: datetimes by time, numbers by value
KeyLess(a, b, group_cols, date_column) ==
    \E i \in 1..Len(a) :
        /\ \A j \in 1..(i - 1) : a[j] = b[j]
        /\ IF group_cols[i] = date_column THEN a[i] < b[i]
           ELSE a[i][1] * b[i][2] < b[i][1] * a[i][2]

\* the group keys of groupby: sorted, the keys with a missing part dropped
GroupKeys(t, group_cols, date_column) ==
    LET ks == {Key(t, t.rows[r], group_cols) : r \in 1..Len(t.rows)}
        ok == {k \in ks : \A i \in 1..Len(k) :
                            group_cols[i] = date_column \/ ~IsNaN(k[i])}
    IN  SortSeq(CHOOSE q \in [1..Cardinality(ok) -> ok] : Range(q) = ok,
                LAMBDA a, b : KeyLess(a, b, group_cols, date_column))

GroupByAgg(t, group_cols, agg_cols, date_column) ==
    LET keys     == GroupKeys(t, group_cols, date_column)
        inserted == SelectSeq(group_cols, LAMBDA c : c \notin Range(agg_cols))
        cs       == inserted \o agg_cols
        Members(k) == [t EXCEPT !.rows = SelectSeq(t.rows,
                          LAMBDA row : Key(t, row, group_cols) = k)]
        Out(k, c) ==
            IF c \in Range(agg_cols)
            THEN IF Agg(c) = "mean" THEN GroupMean(Column(Members(k), c))
                 ELSE GroupSum(Column(Members(k), c))
            ELSE k[CHOOSE i \in 1..Len(group_cols) : group_cols[i] = c]
    IN  [cols |-> cs,
         rows |-> [g \in 1..Len(keys) |->
                     [i \in 1..Len(cs) |-> Out(keys[g], cs[i])]]]

_aggregate_weekly(t, date_column, geo_column) ==
    LET w == WeekFrame(t, date_column)
        aggregated == GroupByAgg(w, GroupCols(w, date_column, geo_column),
                                 NumericCols(w, date_column), date_column)
    IN  Formatted(aggregated, date_column)

(***************************************************************************)
(* Calls of _aggregate_weekly on bounded tables.                           *)
(***************************************************************************)
WeekDateTexts == {Strftime(24 * d) : d \in 0..MaxWeekDay}
Measures == {NaN, Num(1), Num(3)}

\* each row carries one measure in its three value columns
WeeklyInputs(rows) ==
    {[cols |-> <<"time", "spend", "nps", "descuento_cocinas">>, rows |-> rs] :
        rs \in SeqsUpTo({<<d, v, v, v>> : d \in WeekDateTexts, v \in Measures},
                        rows)}
    \cup
    {[cols |-> <<"time", "geo", "spend", "nps", "descuento_cocinas">>,
      rows |-> rs] :
        rs \in SeqsUpTo({<<d, g, v, v, v>> :
                            d \in WeekDateTexts, g \in GeoValues, v \in Measures},
                        rows)}

InitWeekly ==
    /\ pc = "call"
    /\ args = [date_column |-> "time"]
    /\ media_df = EmptyFrame /\ extra_df = EmptyFrame /\ merged = EmptyFrame
    /\ arg \in WeeklyInputs(MaxWeekRows)
    /\ df = arg
    /\ result = EmptyFrame
    /\ freq = <<>>
    /\ raised = NoError

AggregateWeekly ==
    /\ pc = "call"
    /\ result' = _aggregate_weekly(df, args.date_column, GeoArg(df))
    /\ df' = WeekFrame(df, args.date_column)
    /\ pc' = "returned"
    /\ UNCHANGED <<args, media_df, extra_df, merged, arg, freq, raised>>

NextWeekly == AggregateWeekly

SpecWeekly == InitWeekly /\ [][NextWeekly]_vars

(***************************************************************************)
(* Properties of _aggregate_weekly.                                        *)
(***************************************************************************)
KeyCols(t) == IF HasCol(t, "geo") THEN <<"geo", "time">> ELSE <<"time">>
ValueCols(t) == Range(t.cols) \ {"geo", "time"}
\* the key of a row with the date as text
TextKey(t, row) ==
    [k \in 1..Len(KeyCols(t)) |->
        IF KeyCols(t)[k] = "time" THEN Strftime(row[ColIdx(t, "time")])
        ELSE row[ColIdx(t, "geo")]]
ResultRowsAt(k) ==
    {o \in 1..Len(result.rows) : Key(result, result.rows[o], KeyCols(arg)) = k}

\* every date a Monday, every (geo, week-start) key in exactly one row
AlreadyWeekly(t) ==
    /\ \A r \in 1..Len(t.rows) : Weekday(ToDatetime(t.rows[r][ColIdx(t, "time")])) = 0
    /\ \A r, q \in 1..Len(t.rows) :
        Key(t, t.rows[r], KeyCols(t)) = Key(t, t.rows[q], KeyCols(t)) => r = q

\* C5: on a table already at week-start granularity _aggregate_weekly returns
\* as many rows as it was given, and every row it was given is in the result
\* with the same value in every column, missing values included.
C5_Idempotent ==
    (pc = "returned" /\ AlreadyWeekly(arg)) =>
        /\ Len(result.rows) = Len(arg.rows)
        /\ \A r \in 1..Len(arg.rows) :
            \E o \in 1..Len(result.rows) :
                \A c \in Range(arg.cols) :
                    result.rows[o][ColIdx(result, c)] = arg.rows[r][ColIdx(arg, c)]

\* the values of column c in the rows of the input whose key is k (df holds
\* the input with its dates moved to their Mondays)
ValuesAt(k, c) ==
    Column([df EXCEPT !.rows =
               SelectSeq(df.rows, LAMBDA row : TextKey(df, row) = k)], c)
Present(s) == SelectSeq(s, LAMBDA v : ~IsNaN(v))

\* C8: the result has exactly one row for every (geo, Monday of the week) key
\* of the input and no other row; in it a column of the mean set or with the
\* discount prefix holds the mean of the group's values and every other value
\* column their sum (over the values that are not missing).
C8_WeeklyPolicy ==
    pc = "returned" =>
        /\ \A r \in 1..Len(arg.rows) :
            LET t == ToDatetime(arg.rows[r][ColIdx(arg, "time")])
                k == [i \in 1..Len(KeyCols(arg)) |->
                        IF KeyCols(arg)[i] = "time"
                        THEN Strftime(t - 24 * Weekday(t))
                        ELSE arg.rows[r][ColIdx(arg, "geo")]]
            IN  Cardinality(ResultRowsAt(k)) = 1
        /\ \A o \in 1..Len(result.rows) :
            LET k == Key(result, result.rows[o], KeyCols(arg))
            IN  /\ \E r \in 1..Len(df.rows) : TextKey(df, df.rows[r]) = k
                /\ \A c \in ValueCols(arg) :
                    result.rows[o][ColIdx(result, c)] =
                        IF c \in {"nps", "descuento_cocinas"}
                        THEN Div(SumSeq(Present(ValuesAt(k, c))),
                                 Num(Len(Present(ValuesAt(k, c)))))
                        ELSE SumSeq(Present(ValuesAt(k, c)))

(***************************************************************************)
(* rename_kpi_columns                                                      *)
(***************************************************************************)
\* only the first role found missing
MissingFirstOnly(t, kpi_col, revenue_col, population_col) ==
    IF ~HasCol(t, kpi_col) /\ ~HasCol(t, "conversions") THEN <<kpi_col>>
    ELSE IF ~HasCol(t, revenue_col) /\ ~HasCol(t, "revenue_per_conversion")
    THEN <<revenue_col>>
    ELSE IF ~HasCol(t, population_col) /\ ~HasCol(t, "population")
    THEN <<population_col>>
    ELSE <<>>

\* the list missing when the three roles have been looked at
Missing(t, kpi_col, revenue_col, population_col) ==
    (IF ~HasCol(t, kpi_col) /\ ~HasCol(t, "conversions")
     THEN <<kpi_col>> ELSE <<>>)
    \o (IF ~HasCol(t, revenue_col) /\ ~HasCol(t, "revenue_per_conversion")
        THEN <<revenue_col>> ELSE <<>>)
    \o (IF ~HasCol(t, population_col) /\ ~HasCol(t, "population")
        THEN <<population_col>> ELSE <<>>)

\* a division whatever the flag
DividesAlways(t, kpi_col, revenue_col, compute_per_conversion) ==
    HasCol(t, revenue_col) /\ HasCol(t, kpi_col)

\* lines 236-237: the revenue column is divided by the KPI column
Divides(t, kpi_col, revenue_col, compute_per_conversion) ==
    HasCol(t, revenue_col) /\ compute_per_conversion /\ HasCol(t, kpi_col)

\* line 239, in place: df[revenue_col] = df[revenue_col] / df[kpi_col]
PerConversion(t, kpi_col, revenue_col) ==
    [t EXCEPT !.rows =
        [r \in 1..Len(t.rows) |->
            [i \in 1..Len(t.cols) |->
                IF t.cols[i] = revenue_col
                THEN Div(t.rows[r][i], t.rows[r][ColIdx(t, kpi_col)])
                ELSE t.rows[r][i]]]]

\* rename_map applied to a column name; a later entry of the dict replaces an
\* earlier one with the same key
Renamed(c, kpi_col, revenue_col, population_col) ==
    IF c = population_col THEN "population"
    ELSE IF c = revenue_col THEN "revenue_per_conversion"
    ELSE IF c = kpi_col THEN "conversions"
    ELSE c

\* the frame as rename_kpi_columns leaves its argument (the division is done
\* before the missing roles are reported)
RenameInPlace(t, kpi_col, revenue_col, compute_per_conversion) ==
    IF Divides(t, kpi_col, revenue_col, compute_per_conversion)
    THEN PerConversion(t, kpi_col, revenue_col)
    ELSE t

\* the value of rename_kpi_columns: [raised, frame]
rename_kpi_columns(t, kpi_col, revenue_col, population_col, compute_per_conversion) ==
    LET d == RenameInPlace(t, kpi_col, revenue_col, compute_per_conversion)
        missing == Missing(t, kpi_col, revenue_col, population_col)
    IN  IF missing # <<>>
        THEN [raised |-> ValueError(missing), frame |-> EmptyFrame]
        ELSE [raised |-> NoError,
              frame  |-> [d EXCEPT !.cols =
                            [i \in 1..Len(d.cols) |->
                                Renamed(d.cols[i], kpi_col, revenue_col,
                                        population_col)]]]

(***************************************************************************)
(* Calls of rename_kpi_columns on bounded tables.                          *)
(***************************************************************************)
RoleColumns ==
    <<"conversions", "conv_count", "revenue_per_conversion", "total_rev",
      "population", "pop">>
KpiSources == {"conversions", "conv_count"}           \* --kpi-column
RevenueSources == {"revenue_per_conversion", "total_rev"}  \* --revenue-column
PopulationSources == {"population", "pop"}            \* --population-column

\* a table with the columns cs; every cell of row r holds the number vs[r]
Uniform(cs, vs) ==
    [cols |-> cs,
     rows |-> [r \in 1..Len(vs) |-> [i \in 1..Len(cs) |-> Num(vs[r])]]]

RenameInputs(rows) ==
    {Uniform(SelectSeq(RoleColumns, LAMBDA c : c \in S), vs) :
        S \in SUBSET Range(RoleColumns), vs \in SeqsUpTo({1, 2}, rows)}

RenameArgs ==
    [date_column : {"time"},
     kpi_column : KpiSources,
     revenue_column : RevenueSources,
     population_column : PopulationSources,
     compute_per_conversion : BOOLEAN]

InitRename ==
    /\ pc = "call"
    /\ args \in RenameArgs
    /\ media_df = EmptyFrame /\ extra_df = EmptyFrame /\ merged = EmptyFrame
    /\ arg \in RenameInputs(MaxRenameRows)
    /\ df = arg
    /\ result = EmptyFrame
    /\ freq = <<>>
    /\ raised = NoError

RenameKpiColumns ==
    /\ pc = "call"
    /\ LET r == rename_kpi_columns(df, args.kpi_column, args.revenue_column,
                    args.population_column, args.compute_per_conversion)
       IN  /\ raised' = r.raised
           /\ result' = r.frame
           /\ pc' = IF r.raised = NoError THEN "returned" ELSE "raised"
    /\ df' = RenameInPlace(df, args.kpi_column, args.revenue_column,
                           args.compute_per_conversion)
    /\ UNCHANGED <<args, media_df, extra_df, merged, arg, freq>>

NextRename == RenameKpiColumns

SpecRename == InitRename /\ [][NextRename]_vars

(***************************************************************************)
(* Properties of rename_kpi_columns.                                       *)
(***************************************************************************)
Canonical == {"conversions", "revenue_per_conversion", "population"}
HasCanonical(t) == Canonical \subseteq Range(t.cols)
Called == pc \in {"returned", "raised"}

\* C6 as stated: on a table that has the three canonical columns
\* rename_kpi_columns returns the table it was given, names and values, for
\* every configuration of the source names and of the flag.
C6_NoOpOnCanonical ==
    (Called /\ HasCanonical(arg)) => (pc = "returned" /\ result = arg)

\* a configured source column is in the table under another name than the
\* canonical name of its role
ForeignSource(t) ==
    \/ args.kpi_column # "conversions" /\ HasCol(t, args.kpi_column)
    \/ args.revenue_column # "revenue_per_conversion"
        /\ HasCol(t, args.revenue_column)
    \/ args.population_column # "population" /\ HasCol(t, args.population_column)

\* C6 amended: on a table that has the three canonical columns
\* rename_kpi_columns returns the table it was given, names and values,
\* provided that every configured source column that is in the table is the
\* canonical column of its role and that the flag is off or the revenue or
\* the KPI source column is not in the table.
C6_NoOpWithoutForeignSourceOrDivision ==
    (/\ Called
     /\ HasCanonical(arg)
     /\ ~ForeignSource(arg)
     /\ ~(/\ args.compute_per_conversion
          /\ HasCol(arg, args.revenue_column)
          /\ HasCol(arg, args.kpi_column)))
    => (pc = "returned" /\ result = arg /\ df = arg)

\* default source names, flag off, on a canonical table whose revenue
\* column a division by the KPI column would change
C6_Witness ==
    /\ pc = "returned"
    /\ HasCanonical(arg)
    /\ Len(arg.rows) > 0
    /\ arg.rows[1][ColIdx(arg, "conversions")] = Num(2)
    /\ args.kpi_column = "conversions"
    /\ args.revenue_column = "revenue_per_conversion"
    /\ args.population_column = "population"
    /\ ~args.compute_per_conversion
    /\ result = arg

RoleMissing(t, source, canonical) == ~HasCol(t, source) /\ ~HasCol(t, canonical)
MissingSources(t) ==
    {c \in {args.kpi_column} : RoleMissing(t, c, "conversions")}
    \cup {c \in {args.revenue_column} : RoleMissing(t, c, "revenue_per_conversion")}
    \cup {c \in {args.population_column} : RoleMissing(t, c, "population")}

\* C7: rename_kpi_columns raises exactly when some role has neither its source
\* column nor its canonical column in the table; the one error it raises
\* names the source column of every such role and of no other, and no table
\* is returned.
C7_AggregatedError ==
    Called =>
        /\ (pc = "raised") <=> (MissingSources(arg) # {})
        /\ pc = "raised" =>
            /\ raised.type = "ValueError"
            /\ Range(raised.cols) = MissingSources(arg)
            /\ Len(raised.cols) = Cardinality(MissingSources(arg))
            /\ result = EmptyFrame
        /\ pc = "returned" => raised = NoError

\* the error names two or more roles at once
C7_Witness ==
    /\ pc = "raised"
    /\ Len(raised.cols) >= 2
    /\ HasCol(arg, "conversions")

(***************************************************************************)
(* load_table                                                              *)
(*                                                                         *)
(* A cell of a file is text.  The texts of the model and what              *)
(* str.strip().str.rstrip("%") and pd.to_numeric(errors="coerce") make of  *)
(* them are listed here.                                                   *)
(***************************************************************************)
Cleaned(s) == CASE s = " 2 " -> "2" [] s = "3%" -> "3" [] OTHER -> s

ToNumeric(s) ==
    CASE s = "1" -> Num(1) [] s = "2" -> Num(2) [] s = "3" -> Num(3)
      [] s = "4" -> Num(4) [] OTHER -> NaN

\* columns.str.contains("^Unnamed"), over the column names of the model
IsUnnamed(c) == c \in {"Unnamed: 0"}

load_table(file, date_column) ==
    LET kept == {i \in 1..Len(file.cols) : ~IsUnnamed(file.cols[i])}
        at   == Sorted(kept)
    IN  [cols |-> [k \in 1..Len(at) |-> file.cols[at[k]]],
         rows |-> [r \in 1..Len(file.rows) |->
                     [k \in 1..Len(at) |->
                        IF file.cols[at[k]] = date_column
                        THEN file.rows[r][at[k]]
                        ELSE ToNumeric(Cleaned(file.rows[r][at[k]]))]]]

(***************************************************************************)
(* main                                                                    *)
(***************************************************************************)
\* lines 271-273
MergeCols(media, extra, date_column) ==
    IF HasCol(media, "geo") /\ HasCol(extra, "geo")
    THEN <<date_column, "geo">> ELSE <<date_column>>

\* lines 277-278: the first row of every key is kept
DropDuplicates(t, subset) ==
    LET first == {r \in 1..Len(t.rows) :
                    \A q \in 1..(r - 1) :
                        Key(t, t.rows[q], subset) # Key(t, t.rows[r], subset)}
        at == Sorted(first)
    IN  [t EXCEPT !.rows = [k \in 1..Len(at) |-> t.rows[at[k]]]]

\* lines 281-283: pd.to_datetime(...).dt.strftime("%Y-%m-%d")
DatesParse(t, date_column) ==
    \A r \in 1..Len(t.rows) : Parseable(t.rows[r][ColIdx(t, date_column)])
CanonicalDate(s) == Strftime(ToDatetime(s))
CanonicalDates(t, date_column) ==
    SetColumn(t, date_column,
        [r \in 1..Len(t.rows) |-> CanonicalDate(t.rows[r][ColIdx(t, date_column)])])

\* line 285: pd.merge(left, right, on=on, how="inner"); missing keys match
\* each other, the rows come in the order of the left frame
Merge(left, right, on) ==
    LET rcols == SelectSeq(right.cols, LAMBDA c : c \notin Range(on))
        Rest(row) == [i \in 1..Len(rcols) |-> row[ColIdx(right, rcols[i])]]
        Matches(lrow) ==
            SelectSeq(right.rows,
                      LAMBDA rrow : Key(right, rrow, on) = Key(left, lrow, on))
        Joined(lrow) ==
            [m \in 1..Len(Matches(lrow)) |-> lrow \o Rest(Matches(lrow)[m])]
    IN  [cols |-> left.cols \o rcols,
         rows |-> Flatten([i \in 1..Len(left.rows) |-> Joined(left.rows[i])])]

\* lines 299-300
DefaultPopulation(t) ==
    IF HasCol(t, "population") THEN t
    ELSE [cols |-> Append(t.cols, "population"),
          rows |-> [r \in 1..Len(t.rows) |-> Append(t.rows[r], Num(1))]]

\* the fill value 0.001
Sentinel == <<1, 1000>>

\* columns.str.contains("impression|spend|investment", case=False), over the
\* column names of the model
MediaLike(c) == c \in {"spend", "Impressions", "investment_tv"}

\* fillna(0.001) on the columns named in cs
FillNa(t, cs) ==
    [t EXCEPT !.rows =
        [r \in 1..Len(t.rows) |->
            [i \in 1..Len(t.cols) |->
                IF t.cols[i] \in cs /\ IsNaN(t.rows[r][i])
                THEN Sentinel ELSE t.rows[r][i]]]]

\* lines 311-318
FillMedia(t) == FillNa(t, {c \in Range(t.cols) : MediaLike(c)})

\* the table with its missing values left in place
FillNothing(t, date_column) == t

\* lines 322-330
FillRemaining(t, date_column) == FillNa(t, Range(t.cols) \ {date_column})

\* merged[cols_to_convert] = ... pairs the distinct names with the selected
\* columns one by one; with a name borne by two columns the pairs go out of
\* step and a two-column frame is assigned to one column: ValueError.  (The
\* tables of the model all have a column sorting after the doubled name.)
DoubledName(t) ==
    \E i, j \in 1..Len(t.cols) : i # j /\ t.cols[i] = t.cols[j]

(***************************************************************************)
(* The files and command lines main is run on.                             *)
(***************************************************************************)
RawTime(day, hour) == Strftime(24 * day) \o <<hour>>
NoSuchDay == <<2023, 2, 30, 0>>
RawTimes == {RawTime(0, 0), RawTime(0, 12), RawTime(1, 0), RawTime(3, 0), NoSuchDay}

DefaultArgs(weekly) ==
    [date_column |-> "time",
     kpi_column |-> "conversions",
     revenue_column |-> "revenue_per_conversion",
     population_column |-> "population",
     compute_per_conversion |-> FALSE,
     aggregate_weekly |-> weekly]

\* a media file without geo: one row per time, the same text in both value
\* columns, the first row unreadable when bad
MediaFile(ts, bad) ==
    [cols |-> <<"time", "spend", "nps">>,
     rows |-> [r \in 1..Len(ts) |->
                 LET v == IF bad /\ r = 1 THEN "n/a" ELSE "1"
                 IN  <<ts[r], v, v>>]]

\* an extra file as DataFrame.to_csv writes it, index column included
ExtraFile(keys, keycols, kpi, revenue, population) ==
    LET named == SelectSeq(<<kpi, revenue, population>>, LAMBDA c : c # None)
        Cells(c) == IF c = kpi THEN " 2 " ELSE IF c = revenue THEN "4" ELSE "3%"
    IN  [cols |-> <<"Unnamed: 0">> \o keycols \o named,
         rows |-> [r \in 1..Len(keys) |->
                     <<"1">> \o keys[r]
                     \o [i \in 1..Len(named) |-> Cells(named[i])]]]

PlainExtra(days) ==
    ExtraFile([i \in 1..Len(days) |-> <<RawTime(days[i], 0)>>], <<"time">>,
              "conversions", "revenue_per_conversion", "population")

\* runs on files without geo: the times of the media file vary
TimeRuns(rows) ==
    {[args  |-> DefaultArgs(w),
      media |-> MediaFile(ts, bad),
      extra |-> PlainExtra(days)] :
        ts \in SeqsUpTo(RawTimes, rows), bad \in BOOLEAN,
        days \in {<<0, 1, 3>>, <<0, 0>>, <<>>}, w \in BOOLEAN}

\* runs on a media file with geo: the keys of the media file vary
GeoRuns(rows) ==
    {[args  |-> DefaultArgs(w),
      media |-> [cols |-> <<"time", "geo", "spend", "nps">>, rows |-> rs],
      extra |-> IF g
                THEN ExtraFile(<<<<RawTime(0, 0), "1">>, <<RawTime(1, 0), "1">>,
                                 <<RawTime(0, 0), "2">>, <<RawTime(0, 0), "A">>>>,
                               <<"time", "geo">>, "conversions",
                               "revenue_per_conversion", "population")
                ELSE PlainExtra(<<0, 1>>)] :
        rs \in SeqsUpTo({<<RawTime(d, 0), geo, "1", "1">> :
                            d \in {0, 1}, geo \in {"1", "2", "A"}},
                        rows),
        g \in BOOLEAN, w \in BOOLEAN}

\* runs where the role columns of the extra file and their configured
\* source names vary
RoleRuns ==
    {[args  |-> [DefaultArgs(FALSE) EXCEPT
                    !.kpi_column = a.kpi_column,
                    !.revenue_column = a.revenue_column,
                    !.population_column = a.population_column,
                    !.compute_per_conversion = a.compute_per_conversion],
      media |-> MediaFile(<<RawTime(0, 0), RawTime(1, 0)>>, FALSE),
      extra |-> ExtraFile(<<<<RawTime(0, 0)>>, <<RawTime(1, 0)>>>>, <<"time">>,
                          kpi, revenue, population)] :
        a \in RenameArgs,
        kpi \in KpiSources \cup {None},
        revenue \in RevenueSources,
        population \in PopulationSources \cup {None}}

Runs(rows, geo_rows) == TimeRuns(rows) \cup GeoRuns(geo_rows) \cup RoleRuns

Init ==
    /\ pc = "start"
    /\ \E run \in Runs(MaxMediaRows, MaxGeoFileRows) :
        /\ args = run.args
        /\ media_df = run.media
        /\ extra_df = run.extra
    /\ merged = EmptyFrame
    /\ arg = EmptyFrame /\ df = EmptyFrame /\ result = EmptyFrame
    /\ freq = <<>>
    /\ raised = NoError

\* lines 264-269
LoadTables ==
    /\ pc = "start"
    /\ media_df' = load_table(media_df, args.date_column)
    /\ extra_df' = load_table(extra_df, args.date_column)
    /\ pc' = "loaded"
    /\ UNCHANGED <<args, merged, arg, df, result, freq, raised>>

\* lines 271-278
Deduplicate ==
    /\ pc = "loaded"
    /\ LET merge_cols == MergeCols(media_df, extra_df, args.date_column)
       IN  /\ media_df' = DropDuplicates(media_df, merge_cols)
           /\ extra_df' = DropDuplicates(extra_df, merge_cols)
    /\ pc' = "deduplicated"
    /\ UNCHANGED <<args, merged, arg, df, result, freq, raised>>

\* lines 280-283
ParseDates ==
    /\ pc = "deduplicated"
    /\ IF DatesParse(media_df, args.date_column)
          /\ DatesParse(extra_df, args.date_column)
       THEN /\ media_df' = CanonicalDates(media_df, args.date_column)
            /\ extra_df' = CanonicalDates(extra_df, args.date_column)
            /\ pc' = "dated"
            /\ UNCHANGED raised
       ELSE /\ raised' = ParseError
            /\ pc' = "failed"
            /\ UNCHANGED <<media_df, extra_df>>
    /\ UNCHANGED <<args, merged, arg, df, result, freq>>

\* line 285
MergeTables ==
    /\ pc = "dated"
    /\ merged' = Merge(media_df, extra_df,
                       MergeCols(media_df, extra_df, args.date_column))
    /\ pc' = "merged"
    /\ UNCHANGED <<args, media_df, extra_df, arg, df, result, freq, raised>>

\* lines 287-292
Aggregate ==
    /\ pc = "merged"
    /\ merged' = IF args.aggregate_weekly
                 THEN _aggregate_weekly(merged, args.date_column, GeoArg(merged))
                 ELSE merged
    /\ pc' = "aggregated"
    /\ UNCHANGED <<args, media_df, extra_df, arg, df, result, freq, raised>>

\* lines 294-298
Regularize ==
    /\ pc = "aggregated"
    /\ \E r \in {_ensure_regular_time_index(merged, args.date_column,
                                            GeoArg(merged))} :
           /\ raised' = r.raised
           /\ freq' = r.freq
           /\ merged' = IF r.raised = NoError THEN r.frame
                        ELSE ParsedFrame(merged, args.date_column)
           /\ pc' = IF r.raised = NoError THEN "regular" ELSE "failed"
    /\ UNCHANGED <<args, media_df, extra_df, arg, df, result>>

\* lines 299-300
Populate ==
    /\ pc = "regular"
    /\ merged' = DefaultPopulation(merged)
    /\ pc' = "populated"
    /\ UNCHANGED <<args, media_df, extra_df, arg, df, result, freq, raised>>

\* lines 301-307
Rename ==
    /\ pc = "populated"
    /\ LET r == rename_kpi_columns(merged, args.kpi_column, args.revenue_column,
                    args.population_column, args.compute_per_conversion)
       IN  /\ raised' = r.raised
           /\ merged' = IF r.raised = NoError THEN r.frame
                        ELSE RenameInPlace(merged, args.kpi_column,
                                args.revenue_column, args.compute_per_conversion)
           /\ pc' = IF r.raised = NoError THEN "renamed" ELSE "failed"
    /\ UNCHANGED <<args, media_df, extra_df, arg, df, result, freq>>

\* lines 309-337: the fills, then the file is written
FillAndWrite ==
    /\ pc = "renamed"
    /\ IF DoubledName(merged)
       THEN /\ raised' = ValueError(<<>>)
            /\ merged' = FillMedia(merged)
            /\ pc' = "failed"
            /\ UNCHANGED result
       ELSE /\ merged' = FillRemaining(FillMedia(merged), args.date_column)
            /\ result' = merged'
            /\ pc' = "done"
            /\ UNCHANGED raised
    /\ UNCHANGED <<args, media_df, extra_df, arg, df, freq>>

Next ==
    \/ LoadTables
    \/ Deduplicate
    \/ ParseDates
    \/ MergeTables
    \/ Aggregate
    \/ Regularize
    \/ Populate
    \/ Rename
    \/ FillAndWrite

Spec == Init /\ [][Next]_vars

(***************************************************************************)
(* Properties of main.                                                     *)
(***************************************************************************)
KeyUnique(t, ks) ==
    \A r, q \in 1..Len(t.rows) :
        Key(t, t.rows[r], ks) = Key(t, t.rows[q], ks) => r = q

\* C2: when the two tables are joined (deduplicated, then their dates made
\* canonical) every (date, geo) key is in at most one row of each of them,
\* and the merged table has every key in at most one row, so it has no more
\* rows than either table.
C2_JoinUniqueness ==
    LET merge_cols == MergeCols(media_df, extra_df, args.date_column)
    IN  /\ pc = "dated" =>
            KeyUnique(media_df, merge_cols) /\ KeyUnique(extra_df, merge_cols)
        /\ pc = "merged" =>
            /\ KeyUnique(merged, merge_cols)
            /\ Len(merged.rows) <= Len(media_df.rows)
            /\ Len(merged.rows) <= Len(extra_df.rows)

\* C3: the table main writes has no missing value in any column but the date
\* column.
C3_NoMissing ==
    pc = "done" =>
        \A r \in 1..Len(result.rows) :
            \A i \in 1..Len(result.cols) :
                result.cols[i] # args.date_column => ~IsNaN(result.rows[r][i])

\* a run that is complete, for which the date range got a row that no file
\* had (its KPI was missing and is now the fill value) and a cell of the
\* media file could not be read as a number
C3_Witness ==
    /\ pc = "done"
    /\ \E r \in 1..Len(result.rows) :
        result.rows[r][ColIdx(result, "conversions")] = Sentinel
    /\ \E r \in 1..Len(result.rows) :
        result.rows[r][ColIdx(result, "nps")] = Sentinel
    /\ \E r \in 1..Len(media_df.rows) : IsNaN(media_df.rows[r][ColIdx(media_df, "nps")])

\* the files have a column of this name
FileHas(c) == HasCol(media_df, c) \/ HasCol(extra_df, c)

\* C10: after the population default and the renaming the table has exactly
\* one population column; it is a column of ones made by main only when the
\* files have neither the configured population source column nor a column
\* named population, and when the files have the configured source column
\* no column of ones is added to it.
C10_PopulationDefault ==
    pc = "renamed" =>
        /\ Count(merged.cols, "population") = 1
        /\ (~FileHas(args.population_column) /\ ~FileHas("population")) =>
            \A r \in 1..Len(merged.rows) :
                merged.rows[r][ColIdx(merged, "population")] = Num(1)

====
